---- MODULE Spec2Model ----
(***************************************************************************)
(* Session / token lifecycle of the Atlas front-end.                       *)
(*                                                                         *)
(* The model follows the JavaScript event loop: every action is one        *)
(* macrotask (a UI event, the start-up script, or the arrival of one       *)
(* network response) together with all the promise continuations that run  *)
(* before the next macrotask.  An async function is therefore split at its *)
(* await of a network request: the part before the await (named after the  *)
(* function) creates the request, the part after it (named *_resume) is    *)
(* run when the request settles.                                           *)
(***************************************************************************)
EXTENDS Integers, Sequences, FiniteSets, Bags, TLC

\* ---------------------------------------------------------------- bounds
MaxReq == 3          \* request configs alive at the same time
MaxTok == 1          \* access tokens the server mints through /v1/auth/refresh
MaxCalls == 1        \* calls made by the user interface after start-up
MaxConfigCalls == 2  \* calls made to logout and to the config store after start-up
MaxElapse == 1       \* lapses of time in one run of the verification tracker
MaxFlowCalls == 3    \* calls the views make to the verification tracker
MaxPending == 1      \* tracker requests awaiting their answer at the same time

\* ------------------------------------------------------------- constants
NoToken == 0                      \* accessToken === null
MOCK_ACCESS_TOKEN == 1            \* the token the login endpoint hands out
NewAccessToken(t) == MOCK_ACCESS_TOKEN + t   \* `new-access-token-${Date.now()}`
VERIFICATION_TIMEOUT == 900000    \* 15 * 60 * 1000 ms
RESEND_COOLDOWN == 60000          \* 60 * 1000 ms
TICK == 1000                      \* period of the setInterval that refreshes `now`

REFRESH == "/v1/auth/refresh"
LOGOUT  == "/v1/auth/logout"
LOGIN   == "/v1/auth/login/email-password"
RESET   == "/v1/auth/reset-password"

Slots == 1..MaxReq

VARIABLES
  accessToken,           \* authStore.accessToken (0 = null)
  defaultAuthorization,  \* api.defaults.headers.common.Authorization (0 = unset)
  isRefreshing,          \* api.ts: let isRefreshing
  failedQueue,           \* api.ts: let failedQueue (the requests whose promise waits)
  requests,              \* the axios request configs that are not yet settled
  isAuthInitialized,     \* router/index.ts: let isAuthInitialized
  boot,                  \* position of the start-up script
  refreshCookie,         \* the httpOnly refreshToken cookie the server validates
  serverClock,           \* Date.now() of the server, counted in minted tokens
  calls,                 \* number of calls the user interface has made
  to,                    \* target of the navigation whose guard awaits ("" = none)
  localStorage,          \* the configuration cache: the entries that exist, by key
  configStore,           \* config store: globalConfig, authConfig (<< >> = null), loading flags
  fetches,               \* bag of the urls of the fetch() calls awaiting their answer
  events                 \* observer: what returned during the last macrotask

authVars == <<accessToken, defaultAuthorization, isRefreshing, failedQueue, requests,
              isAuthInitialized, boot, refreshCookie, serverClock, calls, to,
              localStorage, configStore, fetches, events>>

\* the verification tracker of the auth store; times are in milliseconds
VARIABLES
  verificationState,          \* verificationState.value
  storage,                    \* sessionStorage['verification_state'] (<< >> = no entry)
  resendCooldownEndTimestamp, \* 0 = null
  now,                        \* the ticked reference now.value
  tickBase,                   \* Date.now() when this store instance was created
  clock,                      \* Date.now()
  pending,                    \* tracker requests awaiting their answer
  elapsed,                    \* number of lapses of time so far
  flowCalls,                  \* number of calls made to the tracker so far
  returned                    \* observer: what the tracker returned during the last task

trackerVars == <<verificationState, storage, resendCooldownEndTimestamp, now,
                 tickBase, clock, pending, elapsed, flowCalls, returned>>

vars == <<authVars, trackerVars>>

\* A request config.  st: "free" (no such request), "sent" (on the network),
\* "renewing" (its 401 handler started the renewal and awaits it), "queued"
\* (its promise sits in failedQueue).  who/orig name the awaiting caller:
\*   LOGIN  : "form"                      (LoginForm.handleSubmit)
\*   RESET  : "app"                       (ResetPasswordForm.handleSubmit)
\*   REFRESH: "init" | "guard" | "renew"  (caller of refreshAccessToken)
\*   LOGOUT : "icatch" (the 401 handler's catch block), or "init" | "guard" |
\*            "renew" when logout was called by the failure branch of that
\*            refreshAccessToken; "user" is a caller outside the store and
\*            the interceptor, which only ConfigSpec has (the only one in the
\*            sources, WorkspaceView.handleLogout, returns before the call
\*            because this store exports no refreshToken).
\* orig is the request whose interceptor is the caller ("renew", "icatch").
\* hdr is the token of the Authorization header, retry the _retry marker, pw
\* whether the submitted password is the right one.  Observers: resends counts
\* the re-sends, rej is the token the request carried when it received its
\* 401, posts the POST /v1/auth/refresh sent by the request's 401 handler, and
\* cred (on a logout made by a failed refreshAccessToken) whether the server
\* held the refreshToken cookie when it answered that renewal.  clear is, on
\* a logout request, the clearAuthConfigCache argument of the call that awaits
\* it.
FreeReq == [st |-> "free", url |-> "", hdr |-> NoToken, retry |-> FALSE,
            who |-> "", orig |-> 0, resends |-> 0, rej |-> NoToken,
            posts |-> 0, pw |-> FALSE, cred |-> FALSE, clear |-> TRUE]

Cur == [accessToken |-> accessToken, defaultAuthorization |-> defaultAuthorization,
        isRefreshing |-> isRefreshing, failedQueue |-> failedQueue,
        requests |-> requests, isAuthInitialized |-> isAuthInitialized,
        to |-> to, localStorage |-> localStorage, configStore |-> configStore,
        fetches |-> fetches, events |-> {}]

\* Request configs are objects without an order: the table is kept sorted by
\* content, so that two states that differ only in the numbering of the
\* requests are one state.  Rank(s, i) is the place of request i in that order.
Index(seq, x) == CHOOSE k \in 1..Len(seq) : seq[k] = x
Key1(q) ==
  ((((Index(<<REFRESH, LOGOUT, LOGIN, RESET, "">>, q.url) * 4
      + Index(<<"renewing", "queued", "sent", "free">>, q.st)) * 8
      + Index(<<"init", "guard", "renew", "icatch", "form", "app", "user", "">>,
              q.who) - 1) * 2
      + (IF q.retry THEN 1 ELSE 0)) * 2
      + (IF q.pw THEN 1 ELSE 0)) * 4 + q.posts
Key2(q) ==
  ((q.hdr * (MaxTok + 2) + q.rej) * (MaxTok + 2) + q.resends) * 2
    + (IF q.clear THEN 1 ELSE 0)
Before(k1, k2, j, i) ==
  \/ k1[j] < k1[i]
  \/ k1[j] = k1[i] /\ k2[j] < k2[i]
  \/ k1[j] = k1[i] /\ k2[j] = k2[i] /\ j < i
Rank(req) ==
  CHOOSE rank \in
    { [i \in Slots |-> 1 + Cardinality({j \in Slots : Before(k1, k2, j, i)})] :
        k1 \in {[i \in Slots |-> Key1(req[i])]},
        k2 \in {[i \in Slots |-> Key2(req[i])]} } : TRUE
Renumber(s, rank) ==
  [s EXCEPT
     !.requests = [k \in Slots |->
                     [s.requests[CHOOSE i \in Slots : rank[i] = k]
                        EXCEPT !.orig = IF @ = 0 THEN 0 ELSE rank[@]]],
     !.failedQueue = [n \in 1..Len(s.failedQueue) |-> rank[s.failedQueue[n]]]]
Normalize(s) ==
  CHOOSE n \in {Renumber(s, rank) : rank \in {Rank(s.requests)}} : TRUE

Apply(s) ==
  \E v \in {s} : \E n \in {Normalize(v)} :
      /\ accessToken' = n.accessToken
      /\ defaultAuthorization' = n.defaultAuthorization
      /\ isRefreshing' = n.isRefreshing
      /\ failedQueue' = n.failedQueue
      /\ requests' = n.requests
      /\ isAuthInitialized' = n.isAuthInitialized
      /\ to' = n.to
      /\ localStorage' = n.localStorage
      /\ configStore' = n.configStore
      /\ fetches' = n.fetches
      /\ events' = n.events

FreeSlots(s) == {i \in Slots : s.requests[i].st = "free"}
HasSlot(s) == FreeSlots(s) # {}
NewSlot(s) == CHOOSE i \in FreeSlots(s) : \A j \in FreeSlots(s) : i <= j

\* an entry of events: fn "refreshAccessToken" or "logout" returned val to the
\* caller who (for refreshAccessToken, out tells whether the server held the
\* refreshToken cookie when it answered; for logout, out tells what the finally
\* block did to the configuration cache); fn "refresh" is the answer out to a
\* POST /v1/auth/refresh sent for who, val telling whether the server held
\* the cookie
Event(fn, who, val, out) ==
  [fn |-> fn, who |-> who, val |-> val, out |-> out]

\* ------------------------------------------------------------ api client
\* request interceptor: the store's token, when there is one, replaces the
\* Authorization header of the config
requestInterceptor(s, hdr) ==
  IF s.accessToken # NoToken THEN s.accessToken ELSE hdr

\* api.post(url): a new config, merged with the defaults, through the request
\* interceptor, onto the network
apiPost(s, url, who, orig, pw, cred) ==
  [s EXCEPT !.requests[NewSlot(s)] =
     [FreeReq EXCEPT !.st = "sent", !.url = url,
                     !.hdr = requestInterceptor(s, s.defaultAuthorization),
                     !.who = who, !.orig = orig, !.pw = pw, !.cred = cred]]

\* a re-send that leaves the config as it was rejected
apiRetry_staleHeader(s, r, token) ==
  [s EXCEPT !.requests[r].st = "sent",
            !.requests[r].resends = @ + 1]

\* api(originalRequest) with originalRequest.headers.Authorization = token
apiRetry(s, r, token) ==
  [s EXCEPT !.requests[r].st = "sent",
            !.requests[r].hdr = requestInterceptor(s, token),
            !.requests[r].resends = @ + 1]

\* ---------------------------------------------------------------- router
\* the route records: names, paths and meta.requiresAuth
Routes == {"home", "login", "workspace"}
fullPath(name) ==
  CASE name = "home" -> "/"
    [] name = "login" -> "/login"
    [] name = "workspace" -> "/workspace"
requiresAuth(name) == name = "workspace"

\* next({ path: '/login', query: { redirect } }) as the location it names
LoginLocation(redirect) ==
  CASE redirect = "/" -> "/login?redirect=/"
    [] redirect = "/login" -> "/login?redirect=/login"
    [] redirect = "/workspace" -> "/login?redirect=/workspace"

\* a guard that confirms every navigation
beforeEach_noAuthCheck(name, isAuthenticated) == "next"

\* router.beforeEach after its initialisation block: what the guard hands to
\* next for the target route name; "next" is next() without argument, any
\* other value the location of the redirection
beforeEach(name, isAuthenticated) ==
  IF requiresAuth(name)
    THEN IF isAuthenticated THEN "next" ELSE LoginLocation(fullPath(name))
    ELSE IF name = "login" /\ isAuthenticated THEN "/workspace" ELSE "next"

\* the guard of the first navigation after `await authStore.initializeAuth()`:
\* isAuthInitialized = true, then the decision with isAuthenticated as the
\* store has it at that moment
beforeEach_resume(s) ==
  [s EXCEPT !.isAuthInitialized = TRUE,
            !.to = "",
            !.events = @ \cup {Event("beforeEach", s.to, s.accessToken # NoToken,
                                     beforeEach(s.to, s.accessToken # NoToken))}]

\* ------------------------------------------------------------ config store
DEFAULT_CACHE_DURATION == 43200000
GLOBAL_CONFIG_CACHE_KEY == "atlas_global_config"
GLOBAL_CONFIG_TIMESTAMP_KEY == "atlas_global_config_timestamp"
GLOBAL_CONFIG_DURATION_KEY == "atlas_global_config_duration"
AUTH_CONFIG_CACHE_KEY == "atlas_auth_config"
AUTH_CONFIG_TIMESTAMP_KEY == "atlas_auth_config_timestamp"
\* `${AUTH_CONFIG_TIMESTAMP_KEY}_duration`, a key of an earlier version that
\* fetchAuthConfig removes on a cache hit
AUTH_CONFIG_OLD_DURATION_KEY == "atlas_auth_config_timestamp_duration"
ConfigKeys ==
  {GLOBAL_CONFIG_CACHE_KEY, GLOBAL_CONFIG_TIMESTAMP_KEY, GLOBAL_CONFIG_DURATION_KEY,
   AUTH_CONFIG_CACHE_KEY, AUTH_CONFIG_TIMESTAMP_KEY, AUTH_CONFIG_OLD_DURATION_KEY}

\* the two endpoints the store fetches
CONFIG == "/v1/config"
AUTH_CONFIG == "/v1/auth/config"

\* Number.prototype.toString() and Number.parseInt(text, 10) of a
\* non-negative integer: the decimal digits, most significant first
RECURSIVE toString(_)
toString(n) ==
  IF n < 10 THEN <<n>> ELSE Append(toString(n \div 10), n % 10)
RECURSIVE parseInt(_)
parseInt(text) ==
  IF Len(text) = 1 THEN text[1]
  ELSE parseInt(SubSeq(text, 1, Len(text) - 1)) * 10 + text[Len(text)]

\* JSON.stringify and JSON.parse of a configuration object: a GlobalConfig
\* {brand: {name}, cache?: {duration}} (duration 0 = not set) or an AuthConfig
\* {loginMode}
JSON_stringifyConfig(data) ==
  IF "brand" \in DOMAIN data
    THEN <<"brand.name", data.brand, "cache.duration", data.duration>>
    ELSE <<"loginMode", data.loginMode>>
JSON_parseConfig(text) ==
  IF text[1] = "brand.name"
    THEN [brand |-> text[2], duration |-> text[4]]
    ELSE [loginMode |-> text[2]]

getDefaultGlobalConfig == [brand |-> "Atlas", duration |-> 0]
getDefaultAuthConfig == [loginMode |-> 0]

\* localStorage.getItem (<< >> for null), setItem and removeItem
getItem(s, key) ==
  IF key \in DOMAIN s.localStorage THEN s.localStorage[key] ELSE << >>
setItem(s, key, value) ==
  [s EXCEPT !.localStorage =
     [k \in DOMAIN s.localStorage \cup {key} |->
        IF k = key THEN value ELSE s.localStorage[k]]]
removeItem(s, key) ==
  IF key \notin DOMAIN s.localStorage THEN s
  ELSE [s EXCEPT !.localStorage =
          [k \in DOMAIN s.localStorage \ {key} |-> s.localStorage[k]]]

isCacheValid(s, timestampKey, cacheDuration) ==
  IF getItem(s, timestampKey) = << >> THEN FALSE
  ELSE (clock - parseInt(getItem(s, timestampKey))) < cacheDuration

\* the cached object as a one-element sequence, << >> for null
loadCachedConfig(s, cacheKey, timestampKey, cacheDuration) ==
  IF ~isCacheValid(s, timestampKey, cacheDuration) THEN << >>
  ELSE IF getItem(s, cacheKey) = << >> THEN << >>
  ELSE <<JSON_parseConfig(getItem(s, cacheKey))>>

\* durationKey "" stands for an options object without durationKey
saveCachedConfig(s, cacheKey, timestampKey, data, duration, durationKey) ==
  LET s1 == setItem(setItem(s, cacheKey, JSON_stringifyConfig(data)),
                    timestampKey, toString(clock))
  IN  IF durationKey # ""
        THEN setItem(s1, durationKey,
                     toString(IF duration # 0 THEN duration
                              ELSE DEFAULT_CACHE_DURATION))
        ELSE s1

clearConfigCache(s, cacheKey, timestampKey, durationKey) ==
  LET s1 == removeItem(removeItem(s, cacheKey), timestampKey)
  IN  IF durationKey # "" THEN removeItem(s1, durationKey) ELSE s1

clearAllConfigCache(s) ==
  clearConfigCache(
    clearConfigCache(s, GLOBAL_CONFIG_CACHE_KEY, GLOBAL_CONFIG_TIMESTAMP_KEY,
                     GLOBAL_CONFIG_DURATION_KEY),
    AUTH_CONFIG_CACHE_KEY, AUTH_CONFIG_TIMESTAMP_KEY, "")

getGlobalCacheDuration(s) ==
  IF getItem(s, GLOBAL_CONFIG_DURATION_KEY) # << >>
    THEN parseInt(getItem(s, GLOBAL_CONFIG_DURATION_KEY))
    ELSE DEFAULT_CACHE_DURATION

\* fetchGlobalConfig(forceRefresh), up to its return on a cache hit or to its
\* await of fetch('/v1/config')
fetchGlobalConfig(s, forceRefresh) ==
  LET cached == IF forceRefresh THEN << >>
                ELSE loadCachedConfig(s, GLOBAL_CONFIG_CACHE_KEY,
                                      GLOBAL_CONFIG_TIMESTAMP_KEY,
                                      getGlobalCacheDuration(s))
  IN  IF cached # << >>
        THEN [s EXCEPT !.configStore.globalConfig = cached]
        ELSE [s EXCEPT !.configStore.globalLoading = TRUE,
                       !.fetches = @ (+) SetToBag({CONFIG})]

\* fetchGlobalConfig after its await: o is "ok" (HTTP 2xx, code 200 and
\* data), "biz" (HTTP 2xx otherwise), "http" (response.ok false) or "err"
\* (fetch or json() threw)
fetchGlobalConfig_resume(s, o, data) ==
  LET s1 == [s EXCEPT !.fetches = @ (-) SetToBag({CONFIG}),
                      !.configStore.globalLoading = FALSE]
  IN  IF o = "ok"
        THEN saveCachedConfig([s1 EXCEPT !.configStore.globalConfig = <<data>>],
                              GLOBAL_CONFIG_CACHE_KEY, GLOBAL_CONFIG_TIMESTAMP_KEY,
                              data, data.duration, GLOBAL_CONFIG_DURATION_KEY)
        ELSE [s1 EXCEPT !.configStore.globalConfig = <<getDefaultGlobalConfig>>]

\* fetchAuthConfig(forceRefresh), up to its return on a cache hit or to its
\* await of fetch('/v1/auth/config')
fetchAuthConfig(s, forceRefresh) ==
  LET cached == IF forceRefresh THEN << >>
                ELSE loadCachedConfig(s, AUTH_CONFIG_CACHE_KEY,
                                      AUTH_CONFIG_TIMESTAMP_KEY,
                                      getGlobalCacheDuration(s))
  IN  IF cached # << >>
        THEN [removeItem(s, AUTH_CONFIG_OLD_DURATION_KEY)
                EXCEPT !.configStore.authConfig = cached]
        ELSE [s EXCEPT !.configStore.authLoading = TRUE,
                       !.fetches = @ (+) SetToBag({AUTH_CONFIG})]

fetchAuthConfig_resume(s, o, data) ==
  LET s1 == [s EXCEPT !.fetches = @ (-) SetToBag({AUTH_CONFIG}),
                      !.configStore.authLoading = FALSE]
  IN  IF o = "ok"
        THEN saveCachedConfig([s1 EXCEPT !.configStore.authConfig = <<data>>],
                              AUTH_CONFIG_CACHE_KEY, AUTH_CONFIG_TIMESTAMP_KEY,
                              data, 0, "")
        ELSE [s1 EXCEPT !.configStore.authConfig = <<getDefaultAuthConfig>>]

\* observer: what the finally block of the logout that awaited q did to the
\* configuration cache, and whether it removed entries while the logout(false)
\* for whose 401 it was made is still awaiting
Cleared(s, q) ==
  IF ~q.clear THEN ""
  ELSE IF /\ DOMAIN s.localStorage # {}
          /\ q.orig # 0
          /\ s.requests[q.orig].url = LOGOUT
          /\ s.requests[q.orig].who = "user"
          /\ ~s.requests[q.orig].clear
    THEN "clearAllConfigCache during logout(false)"
    ELSE "clearAllConfigCache"

\* ------------------------------------------------------------ auth store
login(s, token) ==
  [s EXCEPT !.accessToken = token]

\* logout(), up to its await of api.post('/v1/auth/logout')
logout(s, who, orig, cred, clearAuthConfigCache) ==
  [apiPost(s, LOGOUT, who, orig, FALSE, cred)
     EXCEPT !.requests[NewSlot(s)].clear = clearAuthConfigCache]

\* refreshAccessToken(), up to its await of api.post('/v1/auth/refresh')
refreshAccessToken(s, who, orig) ==
  apiPost(IF orig = 0 THEN s ELSE [s EXCEPT !.requests[orig].posts = @ + 1],
          REFRESH, who, orig, FALSE, FALSE)

\* initializeAuth(): a no-op when a token is held
initializeAuth(s, who) ==
  IF s.accessToken = NoToken
    THEN refreshAccessToken(s, who, 0)
    ELSE IF who = "guard" THEN beforeEach_resume(s) ELSE s

RECURSIVE settle(_, _, _, _)

\* failedQueue.forEach(prom => error ? prom.reject(error) : prom.resolve(token));
\* a rejected waiter hands the error to its caller, a resolved one re-sends
\* its request with the token (the .then of the queue branch)
RECURSIVE forEachWaiter(_, _, _, _)
forEachWaiter(s, q, error, token) ==
  IF q = << >> THEN s
  ELSE forEachWaiter(IF error THEN settle(s, Head(q), "err", NoToken)
                              ELSE apiRetry(s, Head(q), token),
                     Tail(q), error, token)

processQueue(s, error, token) ==
  forEachWaiter([s EXCEPT !.failedQueue = << >>], s.failedQueue, error, token)

\* the 401 handler after `await authStore.refreshAccessToken()`: the try
\* block when refreshed, else the catch block up to `await authStore.logout()`
responseError_resume(s, orig, refreshed) ==
  IF refreshed
    THEN LET s1 == [s EXCEPT !.defaultAuthorization = s.accessToken]
             s2 == processQueue(s1, FALSE, s1.accessToken)
             s3 == apiRetry(s2, orig, s2.accessToken)
         IN  [s3 EXCEPT !.isRefreshing = FALSE]
    ELSE logout(processQueue(s, TRUE, NoToken), "icatch", orig, FALSE, TRUE)

\* refreshAccessToken returns `result` to its caller
refreshAccessToken_return(s, who, orig, result, cred) ==
  LET s1 == [s EXCEPT !.events =
                @ \cup {Event("refreshAccessToken", who, result,
                              IF cred THEN "cookie" ELSE "no cookie")}]
  IN  CASE who = "init"  -> s1
        [] who = "guard" -> beforeEach_resume(s1)
        [] who = "renew" -> responseError_resume(s1, orig, result)

\* a logout whose finally block leaves the token in place
logout_resume_keepToken(s, q) ==
  LET s0 == IF q.clear THEN clearAllConfigCache(s) ELSE s
      s1 == [s0 EXCEPT !.events = @ \cup {Event("logout", q.who, TRUE, Cleared(s, q))}]
  IN  CASE q.who \in {"init", "guard", "renew"} ->
             refreshAccessToken_return(s1, q.who, q.orig, FALSE, q.cred)
        [] q.who = "icatch" ->
             settle([s1 EXCEPT !.isRefreshing = FALSE], q.orig, "err", NoToken)
        [] q.who = "user" -> s1

\* logout() after its await: catch (logged only) and finally, then the return
\* to the caller; q is the config of the settled POST /v1/auth/logout
logout_resume(s, q) ==
  LET s0 == IF q.clear THEN clearAllConfigCache(s) ELSE s
      s1 == [s0 EXCEPT !.accessToken = NoToken,
                       !.events = @ \cup {Event("logout", q.who, TRUE, Cleared(s, q))}]
  IN  CASE q.who \in {"init", "guard", "renew"} ->
             refreshAccessToken_return(s1, q.who, q.orig, FALSE, q.cred)
        [] q.who = "icatch" ->
             \* finally { isRefreshing = false }; return Promise.reject(refreshError)
             settle([s1 EXCEPT !.isRefreshing = FALSE], q.orig, "err", NoToken)
        [] q.who = "user" -> s1

\* a refreshAccessToken whose catch block returns false without logout
refreshAccessToken_resume_noLogoutInCatch(s, q, res, token) ==
  IF res = "ok"
    THEN refreshAccessToken_return(login(s, token), q.who, q.orig, TRUE, q.cred)
    ELSE IF res = "biz"
      THEN logout(s, q.who, q.orig, q.cred, TRUE)
      ELSE refreshAccessToken_return(s, q.who, q.orig, FALSE, q.cred)

\* refreshAccessToken() after its await; q is the config of the settled
\* POST /v1/auth/refresh, res its outcome
refreshAccessToken_resume(s, q, res, token) ==
  IF res = "ok"
    THEN refreshAccessToken_return(login(s, token), q.who, q.orig, TRUE, q.cred)
    ELSE logout(s, q.who, q.orig, q.cred, TRUE)

\* LoginForm.handleSubmit after its await
handleSubmit_resume(s, res, token) ==
  IF res = "ok" THEN login(s, token) ELSE s

\* the promise returned by api(config) settles: res is "ok" (2xx, code 200),
\* "biz" (2xx, other code), "401" or "err" (rejections); the awaiting caller
\* continues
settle(s, r, res, token) ==
  LET q  == s.requests[r]
      s1 == [s EXCEPT !.requests[r] = FreeReq]
  IN  CASE q.url = REFRESH -> refreshAccessToken_resume(s1, q, res, token)
        [] q.url = LOGOUT  -> logout_resume(s1, q)
        [] q.url = LOGIN   -> handleSubmit_resume(s1, res, token)
        [] OTHER           -> s1

\* an error handler that starts a renewal of its own although one is in
\* progress
responseError_noSingleFlight(s, r, status) ==
  LET q == s.requests[r]
  IN  IF status = 401 /\ q.url # REFRESH /\ ~q.retry
        THEN IF s.isRefreshing /\ ~HasSlot(s)
               THEN [s EXCEPT !.requests[r].st = "queued",
                              !.requests[r].rej = q.hdr,
                              !.failedQueue = Append(@, r)]
               ELSE refreshAccessToken(
                      [s EXCEPT !.requests[r].st = "renewing",
                                !.requests[r].retry = TRUE,
                                !.requests[r].rej = q.hdr,
                                !.isRefreshing = TRUE],
                      "renew", r)
        ELSE settle(s, r, IF status = 401 THEN "401" ELSE "err", NoToken)

\* an error handler without the check of the url
responseError_noUrlCheck(s, r, status) ==
  LET q == s.requests[r]
  IN  IF status = 401 /\ ~q.retry
        THEN IF s.isRefreshing
               THEN [s EXCEPT !.requests[r].st = "queued",
                              !.requests[r].rej = q.hdr,
                              !.failedQueue = Append(@, r)]
               ELSE refreshAccessToken(
                      [s EXCEPT !.requests[r].st = "renewing",
                                !.requests[r].retry = TRUE,
                                !.requests[r].rej = q.hdr,
                                !.isRefreshing = TRUE],
                      "renew", r)
        ELSE settle(s, r, IF status = 401 THEN "401" ELSE "err", NoToken)

\* response interceptor, error handler; status 0 stands for every failure
\* other than HTTP 401 (no response, timeout, other status)
responseError(s, r, status) ==
  LET q == s.requests[r]
  IN  IF status = 401 /\ q.url # REFRESH /\ ~q.retry
        THEN IF s.isRefreshing
               THEN [s EXCEPT !.requests[r].st = "queued",
                              !.requests[r].rej = q.hdr,
                              !.failedQueue = Append(@, r)]
               ELSE refreshAccessToken(
                      [s EXCEPT !.requests[r].st = "renewing",
                                !.requests[r].retry = TRUE,
                                !.requests[r].rej = q.hdr,
                                !.isRefreshing = TRUE],
                      "renew", r)
        ELSE settle(s, r, IF status = 401 THEN "401" ELSE "err", NoToken)

\* ---------------------------------------------------------------- server
\* what the back end (or the network) can answer to a request
ServerAnswers(q) ==
  CASE q.url = REFRESH ->
         {"biz", "401", "err"}
           \cup (IF refreshCookie /\ serverClock < MaxTok THEN {"ok"} ELSE {})
    [] q.url = LOGOUT -> {"ok", "401", "err"}
    [] q.url = LOGIN  -> IF q.pw THEN {"ok", "err"} ELSE {"biz", "401", "err"}
    [] OTHER          -> {"ok", "biz", "401", "err"}

ServerStep(q, o) ==
  /\ refreshCookie' = (IF o = "ok" /\ q.url = LOGIN THEN TRUE
                       ELSE IF o = "ok" /\ q.url = LOGOUT THEN FALSE
                       ELSE refreshCookie)
  /\ serverClock' = (IF o = "ok" /\ q.url = REFRESH THEN serverClock + 1 ELSE serverClock)

IssuedToken(q, o) ==
  IF o # "ok" THEN NoToken
  ELSE IF q.url = REFRESH THEN NewAccessToken(serverClock + 1)
  ELSE IF q.url = LOGIN THEN MOCK_ACCESS_TOKEN
  ELSE NoToken

\* the answer to a POST /v1/auth/refresh, as the observer sees it
Answered(s, r, o) ==
  IF s.requests[r].url = REFRESH
    THEN [s EXCEPT !.events = @ \cup {Event("refresh", s.requests[r].who, refreshCookie, o)},
                   !.requests[r].cred = refreshCookie]
    ELSE s

\* --------------------------------------------------- verification tracker
\* null is "null" for the strings and 0 for the timestamps (Date.now() is
\* never 0, and both are falsy in the source)
TEST_VERIFICATION_TOKEN == "test-token-123456"
NEW_MOCK_TOKEN == "new-mock-token"              \* `new-mock-token-${Date.now()}`
TEST_PASSWORD_RESET_TOKEN == "reset-token-654321"
TEST_EMAIL_TOKEN == "email-link-token-789"
EMAIL == "admin@atlas.com"

\* A message is the sequence of its fragments, cut so that every string the
\* code searches for ('expired', '过期', 'token', 'invalid', 'missing',
\* '重置令牌缺失', '频繁') is a whole fragment wherever it occurs; a Chinese
\* fragment is written "zh:" and its pinyin.  error.value is written by the
\* tracker and read by the views only, so the message is kept with the
\* return it accompanies.
NoMessage == << >>
\* '验证会话已失效，请返回重新开始。'
SessionInvalid == <<"zh:yanzheng huihua yi shixiao, qing fanhui chongxin kaishi.">>
\* '操作过于频繁，请稍后再试。'
TooFrequent == <<"zh:caozuo guoyu", "zh:pinfan", "zh:, qing shaohou zaishi.">>
\* '验证状态不完整，无法重发。'
Incomplete == <<"zh:yanzheng zhuangtai bu wanzheng, wufa chongfa.">>
\* '重置令牌缺失，请重新验证'
ResetTokenMissing == <<"zh:chongzhi lingpai queshi", "zh:, qing chongxin yanzheng">>
\* '验证码错误'
WrongCode == <<"zh:yanzhengma cuowu">>
\* 'Token 无效或已过期'
TokenInvalidOrExpired == <<"Token", " ", "zh:wuxiao", "zh:huo yi", "zh:guoqi">>
\* '验证令牌无效'
VerificationTokenInvalid == <<"zh:yanzheng lingpai wuxiao">>
\* 'Token 无效'
TokenInvalid == <<"Token", " ", "zh:wuxiao">>
\* '请求过于频繁，请1分钟后再试'
RateLimited == <<"zh:qingqiu guoyu", "zh:pinfan", "zh:, qing 1 fenzhong hou zaishi">>
\* '请求参数错误'
BadRequest == <<"zh:qingqiu canshu cuowu">>
\* the messages of axios for a request without response
NetworkError == <<"Network Error">>
TimeoutExceeded == <<"timeout of 10000ms exceeded">>

\* String.prototype.toLowerCase on the fragments ("Token" is the one
\* fragment with an upper-case letter that the code searches for)
toLowerCase(message) ==
  [i \in 1..Len(message) |-> IF message[i] = "Token" THEN "token" ELSE message[i]]

\* String.prototype.includes
includes(message, needle) ==
  \E i \in 1..Len(message) : message[i] = needle

\* the message unifiedVerify throws for a body whose code is not 200:
\* `${contextLabel}失败（方式：${methodLabel}）：${backendMessage}`
detailedMessage(type, isManual, backendMessage) ==
  <<IF type = "signup" THEN "zh:zhuce" ELSE "zh:zhaohui mima",
    "zh:shibai (fangshi:",
    IF isManual THEN "zh:shoudong shuru yanzhengma" ELSE "zh:lianjie yanzheng",
    "zh:):">> \o backendMessage

Cur2 == [verificationState |-> verificationState, storage |-> storage,
         resendCooldownEndTimestamp |-> resendCooldownEndTimestamp,
         pending |-> pending, returned |-> {}]

\* an entry of returned: fn returned val; info is the message left in
\* error.value (NoMessage when none); for hasActiveVerification, age is the time
\* since the timestamp of the flow at the read (-1 without timestamp)
Returned(fn, val, info, age) == [fn |-> fn, val |-> val, info |-> info, age |-> age]
Return(t, fn, val, info) == [t EXCEPT !.returned = @ \cup {Returned(fn, val, info, -1)}]

\* a tracker request on the network: fn is "resend", "verify" or "reset";
\* type, email and token are the values the call captured, manual tells
\* verify-code from verify-token; live tells that the VerificationForm that
\* awaits the answer is still mounted (its emit reaches the card only then);
\* match tells, for reset-password, that password equals passwordConfirm
Request(fn, type, email, token, manual) ==
  [fn |-> fn, type |-> type, email |-> email, token |-> token, manual |-> manual,
   live |-> fn = "verify", match |-> TRUE]

\* the VerificationForm is unmounted: currentView becomes another form
Unmount(t) ==
  [t EXCEPT !.pending = {[q EXCEPT !.live = FALSE] : q \in @}]

createEmptyVerificationState ==
  [type |-> "null", email |-> "null", verificationToken |-> "null",
   passwordResetToken |-> "null", timestamp |-> 0]

\* JSON.stringify of a verification state: the values of its keys, in the
\* order of the keys (null is written null, a string quoted, a number as it
\* is), and JSON.parse of such a text
JSON_stringify(state) ==
  <<state.type, state.email, state.verificationToken, state.passwordResetToken,
    state.timestamp>>
JSON_parse(text) ==
  [type |-> text[1], email |-> text[2], verificationToken |-> text[3],
   passwordResetToken |-> text[4], timestamp |-> text[5]]

\* a load that restores whatever is saved, however old
loadVerificationState_noExpiry(t) ==
  IF t.storage # << >>
    THEN [t EXCEPT !.verificationState = JSON_parse(t.storage[1])]
    ELSE [t EXCEPT !.verificationState = createEmptyVerificationState]

\* loadVerificationState(): the saved state unless it is expired at Date.now()
loadVerificationState(t) ==
  IF t.storage # << >>
    THEN IF /\ JSON_parse(t.storage[1]).timestamp # 0
            /\ clock - JSON_parse(t.storage[1]).timestamp > VERIFICATION_TIMEOUT
           THEN [t EXCEPT !.storage = << >>,
                          !.verificationState = createEmptyVerificationState]
           ELSE [t EXCEPT !.verificationState = JSON_parse(t.storage[1])]
    ELSE [t EXCEPT !.verificationState = createEmptyVerificationState]

\* a save that forgets the passwordResetToken
saveVerificationState_noResetToken(t) ==
  [t EXCEPT !.storage =
     <<JSON_stringify([t.verificationState EXCEPT !.passwordResetToken = "null"])>>]

saveVerificationState(t) ==
  [t EXCEPT !.storage = <<JSON_stringify(t.verificationState)>>]

\* a start that keeps the passwordResetToken of the previous flow
setVerificationState_keepResetToken(t, type, email, verificationToken) ==
  saveVerificationState(
    [t EXCEPT !.verificationState =
       [type |-> type, email |-> email, verificationToken |-> verificationToken,
        passwordResetToken |-> t.verificationState.passwordResetToken,
        timestamp |-> clock]])

setVerificationState(t, type, email, verificationToken) ==
  saveVerificationState(
    [t EXCEPT !.verificationState =
       [type |-> type, email |-> email, verificationToken |-> verificationToken,
        passwordResetToken |-> "null", timestamp |-> clock]])

setPasswordResetToken(t, token) ==
  saveVerificationState([t EXCEPT !.verificationState.passwordResetToken = token])

\* a clear that leaves the resend cooldown running
clearVerificationState_keepCooldown(t) ==
  [t EXCEPT !.verificationState = createEmptyVerificationState,
            !.storage = << >>]

clearVerificationState(t) ==
  [t EXCEPT !.verificationState = createEmptyVerificationState,
            !.resendCooldownEndTimestamp = 0,
            !.storage = << >>]

\* a cleanup that only drops the verificationToken when nothing is kept
cleanupAfterVerification_dropTokenOnly(t, keepPasswordResetToken) ==
  saveVerificationState(
    IF keepPasswordResetToken /\ t.verificationState.passwordResetToken # "null"
      THEN [t EXCEPT !.verificationState =
              [type |-> "forgot-password", email |-> t.verificationState.email,
               verificationToken |-> "null",
               passwordResetToken |-> t.verificationState.passwordResetToken,
               timestamp |-> clock]]
      ELSE [t EXCEPT !.verificationState.verificationToken = "null"])

\* a cleanup that keeps the used verificationToken and the old timestamp
cleanupAfterVerification_keepAll(t, keepPasswordResetToken) ==
  saveVerificationState(
    IF keepPasswordResetToken /\ t.verificationState.passwordResetToken # "null"
      THEN [t EXCEPT !.verificationState.type = "forgot-password"]
      ELSE clearVerificationState(t))

cleanupAfterVerification(t, keepPasswordResetToken) ==
  saveVerificationState(
    IF keepPasswordResetToken /\ t.verificationState.passwordResetToken # "null"
      THEN [t EXCEPT !.verificationState =
              [type |-> "forgot-password", email |-> t.verificationState.email,
               verificationToken |-> "null",
               passwordResetToken |-> t.verificationState.passwordResetToken,
               timestamp |-> clock]]
      ELSE clearVerificationState(t))

isExpired(t) ==
  now - t.verificationState.timestamp > VERIFICATION_TIMEOUT

\* a getter that reports an expired flow without clearing it
hasActiveVerification_noClear(t) ==
  [val |-> /\ t.verificationState.type # "null"
           /\ t.verificationState.timestamp # 0
           /\ ~(now - t.verificationState.timestamp > VERIFICATION_TIMEOUT),
   t |-> t]

\* the getter hasActiveVerification, which clears an expired state when it is
\* read: val is what it reports, t the tracker after the read
hasActiveVerification(t) ==
  IF t.verificationState.type = "null" \/ t.verificationState.timestamp = 0
    THEN [val |-> FALSE, t |-> t]
    ELSE IF isExpired(t)
      THEN [val |-> FALSE, t |-> clearVerificationState(t)]
      ELSE [val |-> TRUE, t |-> t]

\* a cooldown that never holds
isResendCoolingDown_never(t) ==
  FALSE

isResendCoolingDown(t) ==
  t.resendCooldownEndTimestamp # 0 /\ now < t.resendCooldownEndTimestamp

\* resendVerificationCode(), up to its await of api.post
resendVerificationCode(t) ==
  LET h == hasActiveVerification(t)
      s == h.t.verificationState
  IN  IF ~h.val
        THEN Return(h.t, "resend", FALSE, SessionInvalid)
      ELSE IF isResendCoolingDown(h.t)
        THEN Return(h.t, "resend", FALSE, TooFrequent)
      ELSE IF s.email = "null" \/ s.type = "null" \/ s.verificationToken = "null"
        THEN Return(h.t, "resend", FALSE, Incomplete)
      ELSE [h.t EXCEPT !.pending = @ \cup {Request("resend", s.type, s.email,
                                                     s.verificationToken, FALSE)}]

\* a resend that keeps the token it sent instead of the one it received
resendVerificationCode_resume_oldToken(t, q, o) ==
  LET t1 == [t EXCEPT !.pending = @ \ {q}]
  IN  CASE o = "ok" ->
             Return([setVerificationState(t1, q.type, q.email, q.token)
                       EXCEPT !.resendCooldownEndTimestamp = clock + RESEND_COOLDOWN],
                    "resend", TRUE, NoMessage)
        [] o = "429 body" ->
             Return([t1 EXCEPT !.resendCooldownEndTimestamp = clock + RESEND_COOLDOWN],
                    "resend", FALSE, TooFrequent)
        [] o = "429 http" -> Return(t1, "resend", FALSE, RateLimited)
        [] o = "biz"      -> Return(t1, "resend", FALSE, BadRequest)
        [] OTHER          -> Return(t1, "resend", FALSE, NetworkError)

\* resendVerificationCode() after its await; q is the answered request, o the
\* answer: "ok" (code 200), "429 body" (HTTP 200, code 429, '...频繁...'),
\* "429 http" (HTTP status 429), "biz" (HTTP 200, another code), "err" (any
\* other rejection)
resendVerificationCode_resume(t, q, o) ==
  LET t1 == [t EXCEPT !.pending = @ \ {q}]
  IN  CASE o = "ok" ->
             Return([setVerificationState(t1, q.type, q.email, NEW_MOCK_TOKEN)
                       EXCEPT !.resendCooldownEndTimestamp = clock + RESEND_COOLDOWN],
                    "resend", TRUE, NoMessage)
        [] o = "429 body" ->
             Return([t1 EXCEPT !.resendCooldownEndTimestamp = clock + RESEND_COOLDOWN],
                    "resend", FALSE, TooFrequent)
        [] o = "429 http" -> Return(t1, "resend", FALSE, RateLimited)
        [] o = "biz"      -> Return(t1, "resend", FALSE, BadRequest)
        [] OTHER          -> Return(t1, "resend", FALSE, NetworkError)

\* unifiedVerify(payload), up to its await of api.post
unifiedVerify(t, manual, type) ==
  [t EXCEPT !.pending = @ \cup {Request("verify", type, "null",
                                IF manual THEN t.verificationState.verificationToken
                                          ELSE TEST_EMAIL_TOKEN,
                                manual)}]

\* a classification that does not know the missing reset token
isCriticalError_serverOnly(message) ==
  \/ includes(toLowerCase(message), "expired")
  \/ includes(toLowerCase(message), "zh:guoqi")
  \/ /\ includes(toLowerCase(message), "token")
     /\ \/ includes(toLowerCase(message), "invalid")
        \/ includes(toLowerCase(message), "missing")

isCriticalError(message) ==
  \/ includes(toLowerCase(message), "expired")
  \/ includes(toLowerCase(message), "zh:guoqi")
  \/ /\ includes(toLowerCase(message), "token")
     /\ \/ includes(toLowerCase(message), "invalid")
        \/ includes(toLowerCase(message), "missing")
  \/ includes(toLowerCase(message), "zh:chongzhi lingpai queshi")

\* a catch block that clears the flow on every failure
unifiedVerify_catch_alwaysClear(t, message) ==
  Return(clearVerificationState(t), "verify", FALSE, message)

\* the catch block of unifiedVerify
unifiedVerify_catch(t, message) ==
  Return(IF isCriticalError(message) THEN clearVerificationState(t) ELSE t,
         "verify", FALSE, message)

\* the message of the back end in a failed answer o to the request q
backendMessage(q, o) ==
  CASE o \in {"wrong http", "wrong body"}     -> WrongCode
    [] o \in {"expired http", "expired body"} -> TokenInvalidOrExpired
    [] OTHER -> IF q.manual THEN VerificationTokenInvalid ELSE TokenInvalid

\* unifiedVerify() after its await; o is the answer: "ok token" (code 200
\* with data.passwordResetToken), "ok" (code 200 without it), a failure
\* reported by the back end in the body of an HTTP 200 ("wrong body",
\* "expired body", "no token body") or with HTTP status 400 ("wrong http",
\* "expired http"), "err" (no connection), "timeout"
unifiedVerify_resume(t, q, o) ==
  LET t1 == [t EXCEPT !.pending = @ \ {q}]
  IN  CASE o \in {"ok token", "ok"} ->
             IF q.type = "forgot-password"
               THEN IF o = "ok"
                      THEN unifiedVerify_catch(t1, ResetTokenMissing)
                      ELSE Return(setPasswordResetToken(t1, TEST_PASSWORD_RESET_TOKEN),
                                  "verify", TRUE, NoMessage)
               ELSE Return(t1, "verify", TRUE, NoMessage)
        [] o \in {"wrong body", "expired body", "no token body"} ->
             unifiedVerify_catch(t1, detailedMessage(q.type, q.manual, backendMessage(q, o)))
        [] o \in {"wrong http", "expired http"} ->
             unifiedVerify_catch(t1, backendMessage(q, o))
        [] o = "timeout" -> unifiedVerify_catch(t1, TimeoutExceeded)
        [] OTHER         -> unifiedVerify_catch(t1, NetworkError)

\* a handler that forgets the flow of a signup
handleVerificationSuccess_keepSignup(t, verificationType) ==
  Unmount(IF verificationType = "signup"
            THEN t
            ELSE cleanupAfterVerification(t, TRUE))

\* AuthenticationCard.handleVerificationSuccess: the card leaves the
\* verification form
handleVerificationSuccess(t, verificationType) ==
  Unmount(IF verificationType = "signup"
            THEN clearVerificationState(t)
            ELSE cleanupAfterVerification(t, TRUE))

\* the VerificationForm after its await of unifiedVerify (handleSubmit, or
\* onMounted for an email link): a result is emitted as verification-success,
\* a failed link verification as show-login; the emit of a form that is no
\* longer mounted reaches nobody
VerificationForm_resume(t, q, o) ==
  LET r == unifiedVerify_resume(t, q, o)
  IN  IF ~q.live THEN r
      ELSE IF \E e \in r.returned : e.val THEN handleVerificationSuccess(r, q.type)
      ELSE IF ~q.manual THEN Unmount(r)
      ELSE r

\* '邮箱缺失，请重新验证'
EmailMissing == <<"zh:youxiang queshi, qing chongxin yanzheng">>
\* '两次输入的密码不一致'
PasswordMismatch == <<"zh:liang ci shuru de mima bu yizhi">>
\* '新密码不能为空'
PasswordRequired == <<"zh:xin mima buneng wei kong">>
\* '密码必须至少为8位，且包含字母和数字'
PasswordWeak == <<"zh:mima bixu zhishao wei 8 wei, qie baohan zimu he shuzi">>
\* '请再次输入密码'
ConfirmRequired == <<"zh:qing zaici shuru mima">>
\* '该邮箱未注册'
EmailUnknown == <<"zh:gai youxiang wei zhuce">>
\* '重置令牌无效或已过期'
ResetTokenInvalid == <<"zh:chongzhi lingpai", "zh:wuxiao", "zh:huo yi", "zh:guoqi">>
\* '网络请求失败'
RequestFailed == <<"zh:wangluo qingqiu shibai">>

\* what is typed into a password field, a sequence of characters: nothing,
\* eight letters, two passwords the rules accept
Passwords ==
  {<< >>,
   <<"p", "a", "s", "s", "w", "o", "r", "d">>,
   <<"a", "t", "l", "a", "s", "1", "2", "3">>,
   <<"b", "t", "l", "a", "s", "1", "2", "3">>}

\* /^(?=.*[A-Z])(?=.*\d).{8,}$/i
passwordRegex(value) ==
  /\ \E i \in 1..Len(value) : value[i] \notin {"1", "2", "3"}
  /\ \E i \in 1..Len(value) : value[i] \in {"1", "2", "3"}
  /\ Len(value) >= 8

\* passwordValidator: the message it calls back with (NoMessage when none)
passwordValidator(value) ==
  IF value # << >> /\ ~passwordRegex(value) THEN PasswordWeak ELSE NoMessage

\* the rules of the two form items, run by the form before it emits submit:
\* the first message of each field whose rules fail (errors is undefined
\* when the set is empty)
ResetPasswordForm_errors_noConfirmRule(password, passwordConfirm) ==
  (IF password = << >> THEN {PasswordRequired}
   ELSE {passwordValidator(password)} \ {NoMessage})
  \cup (IF passwordConfirm = << >> THEN {ConfirmRequired} ELSE {})

ResetPasswordForm_errors(password, passwordConfirm) ==
  (IF password = << >> THEN {PasswordRequired}
   ELSE {passwordValidator(password)} \ {NoMessage})
  \cup (IF passwordConfirm = << >> THEN {ConfirmRequired}
        ELSE IF passwordConfirm # password THEN {PasswordMismatch}
        ELSE {})

\* ResetPasswordForm.handleSubmit, up to its await of api.post; propsEmail
\* is props.email ("" when the card has none), password and passwordConfirm
\* are the values of the form; with errors it returns at once and the form
\* shows the messages of the rules
ResetPasswordForm_handleSubmit(t, propsEmail, password, passwordConfirm) ==
  LET errors == ResetPasswordForm_errors(password, passwordConfirm)
      email == IF propsEmail # "" THEN propsEmail
               ELSE IF t.verificationState.email # "null" THEN t.verificationState.email
               ELSE ""
  IN  IF errors # {}
        THEN [t EXCEPT !.returned = @ \cup {Returned("validate", FALSE, m, -1) : m \in errors}]
      ELSE IF email = ""
        THEN Return(clearVerificationState(t), "reset", FALSE, EmailMissing)
      ELSE IF t.verificationState.passwordResetToken = "null"
        THEN Return(clearVerificationState(t), "reset", FALSE, ResetTokenMissing)
      ELSE [t EXCEPT !.pending = @ \cup
              {[Request("reset", "forgot-password", email,
                        t.verificationState.passwordResetToken, FALSE)
                  EXCEPT !.match = (password = passwordConfirm)]}]

\* POST /v1/auth/reset-password of the two mocks, for the body of q: the
\* mock server answers a failure with HTTP status 400 ("... http"), the vite
\* mock with HTTP 200 and code 400 in the body ("... body"); "err" is no
\* response at all
ResetAnswers(q) ==
  (IF q.email # EMAIL THEN {"unknown http", "unknown body"}
   ELSE IF q.token # TEST_PASSWORD_RESET_TOKEN THEN {"invalid http", "invalid body"}
   ELSE IF ~q.match THEN {"mismatch http", "mismatch body"}
   ELSE {"ok"}) \cup {"err"}

\* the message of a failure answer
ResetMessage(o) ==
  CASE o \in {"unknown http", "unknown body"} -> EmailUnknown
    [] o \in {"invalid http", "invalid body"} -> ResetTokenInvalid
    [] o \in {"mismatch http", "mismatch body"} -> PasswordMismatch
    [] OTHER -> NoMessage

\* ResetPasswordForm.handleSubmit after its await: code 200 clears the flow,
\* a body with another code keeps it (400 is neither 401 nor 429), a rejected
\* request goes to the catch, which clears it
ResetPasswordForm_resume(t, q, o) ==
  LET t1 == [t EXCEPT !.pending = @ \ {q}]
  IN  CASE o = "ok" -> Return(clearVerificationState(t1), "reset", TRUE, NoMessage)
        [] o \in {"unknown body", "invalid body", "mismatch body"} ->
             Return(t1, "reset", FALSE, ResetMessage(o))
        [] o \in {"unknown http", "invalid http", "mismatch http"} ->
             Return(clearVerificationState(t1), "reset", FALSE, ResetMessage(o))
        [] OTHER -> Return(clearVerificationState(t1), "reset", FALSE, RequestFailed)

\* what the back end (or the network) can answer to a tracker request: the
\* answers of the two mocks to the end point, and no answer at all
TrackerAnswers(q) ==
  IF q.fn = "resend"
    THEN {"ok", "429 body", "429 http", "biz", "err"}
    ELSE (IF q.type = "forgot-password" THEN {"ok token", "ok"} ELSE {"ok"})
         \cup (IF q.manual THEN {"wrong http", "wrong body"} ELSE {"expired http"})
         \cup {"expired body", "no token body", "err", "timeout"}

VerifyAnswers ==
  {"ok token", "ok", "wrong http", "wrong body", "expired http", "expired body",
   "no token body", "err", "timeout"}

\* the setInterval tick: now.value is the time of the last tick
LastTick(time) == tickBase + ((time - tickBase) \div TICK) * TICK

Apply2(t) ==
  /\ verificationState' = t.verificationState
  /\ storage' = t.storage
  /\ resendCooldownEndTimestamp' = t.resendCooldownEndTimestamp
  /\ pending' = t.pending
  /\ returned' = t.returned

TrackerInit ==
  /\ verificationState = createEmptyVerificationState
  /\ storage = << >>
  /\ resendCooldownEndTimestamp = 0
  /\ clock = TICK
  /\ now = TICK
  /\ tickBase = TICK
  /\ pending = {}
  /\ elapsed = 0
  /\ flowCalls = 0
  /\ returned = {}

\* --------------------------------------------------------------- actions
Init ==
  /\ TrackerInit
  /\ accessToken = NoToken
  /\ defaultAuthorization = NoToken
  /\ isRefreshing = FALSE
  /\ failedQueue = << >>
  /\ requests = [i \in Slots |-> FreeReq]
  /\ isAuthInitialized = FALSE
  /\ boot = "load"
  /\ refreshCookie \in BOOLEAN
  /\ serverClock = 0
  /\ calls = 0
  /\ to = ""
  /\ localStorage = [k \in {} |-> << >>]
  /\ configStore = [globalConfig |-> << >>, authConfig |-> << >>,
                    globalLoading |-> FALSE, authLoading |-> FALSE]
  /\ fetches = EmptyBag
  /\ events = {}

\* the application entry: app.use(router) schedules the first navigation,
\* authStore.initializeAuth() is called and not awaited
AppEntry ==
  /\ boot = "load"
  /\ boot' = "entry"
  /\ Apply(initializeAuth(Cur, "init"))
  /\ UNCHANGED <<refreshCookie, serverClock, calls, trackerVars>>

\* router.beforeEach of the first navigation, to the route called name, up to
\* the end of `await authStore.initializeAuth()`; it runs right after the
\* entry script, before any response can arrive.  No view is mounted before this navigation
\* is resolved, so the user interface makes no call while isAuthInitialized is
\* false, and every later navigation finds isAuthInitialized true.
RouterGuard(name) ==
  /\ boot = "entry"
  /\ ~isAuthInitialized
  /\ boot' = "run"
  /\ Apply(initializeAuth([Cur EXCEPT !.to = name], "guard"))
  /\ UNCHANGED <<refreshCookie, serverClock, calls, trackerVars>>

\* LoginForm.handleSubmit up to its await of api.post(login)
SubmitLogin(pw) ==
  /\ boot = "run"
  /\ isAuthInitialized
  /\ HasSlot(Cur)
  /\ calls < MaxCalls
  /\ calls' = calls + 1
  /\ Apply(apiPost(Cur, LOGIN, "form", 0, pw, FALSE))
  /\ UNCHANGED <<boot, refreshCookie, serverClock, trackerVars>>

\* ResetPasswordForm.handleSubmit up to its await of api.post(reset-password)
SubmitReset ==
  /\ boot = "run"
  /\ isAuthInitialized
  /\ HasSlot(Cur)
  /\ calls < MaxCalls
  /\ calls' = calls + 1
  /\ Apply(apiPost(Cur, RESET, "app", 0, FALSE, FALSE))
  /\ UNCHANGED <<boot, refreshCookie, serverClock, trackerVars>>

\* a 2xx response arrives: response interceptor, success handler
Response(r, o) ==
  /\ boot = "run"
  /\ requests[r].st = "sent"
  /\ o \in ServerAnswers(requests[r]) \cap {"ok", "biz"}
  /\ ServerStep(requests[r], o)
  /\ Apply(settle(Answered(Cur, r, o), r, o, IssuedToken(requests[r], o)))
  /\ UNCHANGED <<boot, calls, trackerVars>>

\* a request fails: response interceptor, error handler
ResponseError(r, o) ==
  /\ boot = "run"
  /\ requests[r].st = "sent"
  /\ o \in ServerAnswers(requests[r]) \cap {"401", "err"}
  /\ (o = "401" /\ requests[r].url # REFRESH /\ ~requests[r].retry /\ ~isRefreshing)
        => HasSlot(Cur)
  /\ ServerStep(requests[r], o)
  /\ Apply(responseError(Answered(Cur, r, o), r, IF o = "401" THEN 401 ELSE 0))
  /\ UNCHANGED <<boot, calls, trackerVars>>

Next ==
  \/ AppEntry
  \/ \E name \in Routes : RouterGuard(name)
  \/ \E pw \in BOOLEAN : SubmitLogin(pw)
  \/ SubmitReset
  \/ \E r \in Slots, o \in {"ok", "biz"} : Response(r, o)
  \/ \E r \in Slots, o \in {"401", "err"} : ResponseError(r, o)

Spec == Init /\ [][Next]_vars

\* ------------------------------------------------- config store actions
\* authStore.logout(clearAuthConfigCache) called from outside the store and
\* the interceptor, up to its await
Logout(clearAuthConfigCache) ==
  /\ boot = "run"
  /\ isAuthInitialized
  /\ HasSlot(Cur)
  /\ calls < MaxConfigCalls
  /\ calls' = calls + 1
  /\ Apply(logout(Cur, "user", 0, FALSE, clearAuthConfigCache))
  /\ UNCHANGED <<boot, refreshCookie, serverClock, trackerVars>>

\* the login view is mounted: configStore.fetchGlobalConfig()
FetchGlobalConfig ==
  /\ boot = "run"
  /\ isAuthInitialized
  /\ calls < MaxConfigCalls
  /\ calls' = calls + 1
  /\ Apply(fetchGlobalConfig(Cur, FALSE))
  /\ UNCHANGED <<boot, refreshCookie, serverClock, trackerVars>>

\* the login view is mounted: configStore.fetchAuthConfig(isPageRefresh)
FetchAuthConfig(forceRefresh) ==
  /\ boot = "run"
  /\ isAuthInitialized
  /\ calls < MaxConfigCalls
  /\ calls' = calls + 1
  /\ Apply(fetchAuthConfig(Cur, forceRefresh))
  /\ UNCHANGED <<boot, refreshCookie, serverClock, trackerVars>>

\* what the back end can send as configuration
Durations == {0, 3600000}
LoginModes == {0, 2}
ConfigData(url) ==
  IF url = CONFIG THEN {[brand |-> "Acme", duration |-> d] : d \in Durations}
  ELSE {[loginMode |-> m] : m \in LoginModes}

\* a fetch of the config store is answered
FetchResponse(url, o, data) ==
  /\ BagIn(url, fetches)
  /\ data \in ConfigData(url)
  /\ Apply(IF url = CONFIG THEN fetchGlobalConfig_resume(Cur, o, data)
                            ELSE fetchAuthConfig_resume(Cur, o, data))
  /\ UNCHANGED <<boot, refreshCookie, serverClock, calls, trackerVars>>

\* time passes between two tasks of the config store
CacheLapses == {3600000, DEFAULT_CACHE_DURATION}
CacheLapse(d) ==
  /\ elapsed < MaxElapse
  /\ elapsed' = elapsed + 1
  /\ clock' = clock + d
  /\ UNCHANGED <<authVars, verificationState, storage, resendCooldownEndTimestamp,
                 now, tickBase, pending, flowCalls, returned>>

ConfigNext ==
  \/ AppEntry
  \/ \E name \in Routes : RouterGuard(name)
  \/ \E r \in Slots, o \in {"ok", "biz"} : Response(r, o)
  \/ \E r \in Slots, o \in {"401", "err"} : ResponseError(r, o)
  \/ \E clearAuthConfigCache \in BOOLEAN : Logout(clearAuthConfigCache)
  \/ FetchGlobalConfig
  \/ \E forceRefresh \in BOOLEAN : FetchAuthConfig(forceRefresh)
  \/ \E url \in {CONFIG, AUTH_CONFIG}, o \in {"ok", "biz", "http", "err"} :
       \E data \in ConfigData(url) : FetchResponse(url, o, data)
  \/ \E d \in CacheLapses : CacheLapse(d)

ConfigSpec == Init /\ [][ConfigNext]_vars

\* ------------------------------------------------------- tracker actions
\* a view starts a flow: showVerification calls setVerificationState
StartFlow(type) ==
  /\ flowCalls < MaxFlowCalls
  /\ flowCalls' = flowCalls + 1
  /\ Apply2(Unmount(setVerificationState(Cur2, type, EMAIL, TEST_VERIFICATION_TOKEN)))
  /\ UNCHANGED <<now, tickBase, clock, elapsed, authVars>>

\* the user asks for a new code
Resend ==
  /\ flowCalls < MaxFlowCalls
  /\ Cardinality(pending) < MaxPending
  /\ flowCalls' = flowCalls + 1
  /\ Apply2(resendVerificationCode(Cur2))
  /\ UNCHANGED <<now, tickBase, clock, elapsed, authVars>>

ResendResponse(q, o) ==
  /\ q \in pending
  /\ q.fn = "resend"
  /\ o \in TrackerAnswers(q)
  /\ Apply2(resendVerificationCode_resume(Cur2, q, o))
  /\ UNCHANGED <<now, tickBase, clock, elapsed, flowCalls, authVars>>

\* the verification form submits a code (manual) or is mounted with an
\* email-link token
Verify(manual, type) ==
  /\ flowCalls < MaxFlowCalls
  /\ Cardinality(pending) < MaxPending
  /\ manual => verificationState.verificationToken # "null"
  /\ flowCalls' = flowCalls + 1
  /\ Apply2(unifiedVerify(Cur2, manual, type))
  /\ UNCHANGED <<now, tickBase, clock, elapsed, authVars>>

VerifyResponse(q, o) ==
  /\ q \in pending
  /\ q.fn = "verify"
  /\ o \in TrackerAnswers(q)
  /\ Apply2(VerificationForm_resume(Cur2, q, o))
  /\ UNCHANGED <<now, tickBase, clock, elapsed, flowCalls, authVars>>

\* the reset-password form is submitted
ResetPassword(propsEmail, password, passwordConfirm) ==
  /\ flowCalls < MaxFlowCalls
  /\ Cardinality(pending) < MaxPending
  /\ flowCalls' = flowCalls + 1
  /\ Apply2(ResetPasswordForm_handleSubmit(Cur2, propsEmail, password, passwordConfirm))
  /\ UNCHANGED <<now, tickBase, clock, elapsed, authVars>>

ResetPasswordResponse(q, o) ==
  /\ q \in pending
  /\ q.fn = "reset"
  /\ o \in ResetAnswers(q)
  /\ Apply2(ResetPasswordForm_resume(Cur2, q, o))
  /\ UNCHANGED <<now, tickBase, clock, elapsed, flowCalls, authVars>>

\* back to the login form
Cancel ==
  /\ \/ verificationState # createEmptyVerificationState
     \/ resendCooldownEndTimestamp # 0
     \/ \E q \in pending : q.live
  /\ Apply2(Unmount(clearVerificationState(Cur2)))
  /\ UNCHANGED <<now, tickBase, clock, elapsed, flowCalls, authVars>>

\* a caller applies cleanupAfterVerification
Cleanup(keep) ==
  /\ verificationState.type # "null"
  /\ Apply2(cleanupAfterVerification(Cur2, keep))
  /\ UNCHANGED <<now, tickBase, clock, elapsed, flowCalls, authVars>>

\* a view reads the getter hasActiveVerification
ReadActive ==
  /\ Apply2([hasActiveVerification(Cur2).t EXCEPT !.returned =
               {Returned("hasActiveVerification", hasActiveVerification(Cur2).val, NoMessage,
                         IF verificationState.timestamp = 0 THEN -1
                         ELSE clock - verificationState.timestamp)}])
  /\ UNCHANGED <<now, tickBase, clock, elapsed, flowCalls, authVars>>

\* the page is reloaded: a new store instance, the pending promises are gone
Reload ==
  /\ Apply2(loadVerificationState([Cur2 EXCEPT !.resendCooldownEndTimestamp = 0,
                                               !.pending = {}]))
  /\ flowCalls < MaxFlowCalls
  /\ flowCalls' = flowCalls + 1
  /\ now' = clock
  /\ tickBase' = clock
  /\ UNCHANGED <<clock, elapsed, authVars>>

\* time passes; the tick keeps now at the last multiple of its period
Lapses == {500, 59000, 899000, 901000}
Elapse(d) ==
  /\ elapsed < MaxElapse
  /\ elapsed' = elapsed + 1
  /\ clock' = clock + d
  /\ now' = LastTick(clock + d)
  /\ returned' = {}
  /\ UNCHANGED <<verificationState, storage, resendCooldownEndTimestamp,
                 pending, tickBase, flowCalls, authVars>>

TrackerNext ==
  \/ \E type \in {"signup", "forgot-password"} : StartFlow(type)
  \/ Resend
  \/ \E q \in pending, o \in {"ok", "429 body", "429 http", "biz", "err"} : ResendResponse(q, o)
  \/ \E manual \in BOOLEAN, type \in {"signup", "forgot-password"} : Verify(manual, type)
  \/ \E q \in pending, o \in VerifyAnswers : VerifyResponse(q, o)
  \/ \E propsEmail \in {EMAIL, ""}, password \in Passwords, passwordConfirm \in Passwords :
       ResetPassword(propsEmail, password, passwordConfirm)
  \/ \E q \in pending, o \in {"ok", "err"} : ResetPasswordResponse(q, o)
  \/ Cancel
  \/ \E keep \in BOOLEAN : Cleanup(keep)
  \/ ReadActive
  \/ Reload
  \/ \E d \in Lapses : Elapse(d)

TrackerSpec == Init /\ [][TrackerNext]_vars

\* ------------------------------------------------------------ vocabulary
Waiting   == {r \in Slots : requests[r].st \in {"renewing", "queued"}}
Renewing  == {r \in Slots : requests[r].st = "renewing"}
OnNetwork == {r \in Slots : requests[r].st = "sent"}
Resent    == {r \in OnNetwork : requests[r].resends >= 1}
\* every request has been answered: nothing more will happen unless the user
\* interface makes another call
Quiescent == boot = "run" /\ OnNetwork = {}

\* C1: N requests that receive a 401 in one renewal cause exactly one POST
\* /v1/auth/refresh (sent by the one request whose handler started the
\* renewal, none by the queued ones, and one such request on the network at
\* most), and in the step in which that renewal succeeds every one of them
\* is re-sent carrying the token just stored.
C1_OneRefresh ==
  /\ Cardinality({r \in OnNetwork : requests[r].url = REFRESH /\ requests[r].who = "renew"}) <= 1
  /\ isRefreshing =>
       /\ \E r \in Slots : requests[r].st = "renewing" /\ requests[r].posts = 1
       /\ \A r \in Slots : requests[r].st = "queued" => requests[r].posts = 0
       /\ Cardinality(Renewing) = 1
C1_AllResent ==
  (\E e \in events' : e.fn = "refreshAccessToken" /\ e.who = "renew" /\ e.val)
    => /\ accessToken' # NoToken
       /\ failedQueue' = << >>
       /\ \A r \in Slots : requests'[r].st \notin {"renewing", "queued"}
       /\ Cardinality({r \in Slots : /\ requests'[r].st = "sent"
                                      /\ requests'[r].resends >= 1
                                      /\ requests'[r].hdr = accessToken'})
            = Cardinality(Waiting)
C1_SingleRenewalForBatch == [](C1_OneRefresh) /\ [][C1_AllResent]_vars
C1_Witness ==
  /\ \E e \in events : e.fn = "refreshAccessToken" /\ e.who = "renew" /\ e.val
  /\ Cardinality({r \in Resent : requests[r].hdr = accessToken}) >= 2

\* C2: at any time at most one POST /v1/auth/refresh is on the network,
\* whoever called refreshAccessToken.
C2_OneRefreshOutstanding ==
  Cardinality({r \in OnNetwork : requests[r].url = REFRESH}) <= 1

\* C3: a request that received a 401 is re-sent at most once, and once
\* re-sent it neither starts a renewal nor waits in failedQueue again.
C3_RetriedAtMostOnce ==
  \A r \in Slots : requests[r].resends >= 1 =>
     requests[r].resends = 1 /\ requests[r].st = "sent"

\* C4: every request placed in failedQueue is settled by the renewal it waits
\* for: once that renewal is over and every request has been answered, no
\* request is left in failedQueue.
C4_QueueSettled ==
  (Quiescent /\ ~isRefreshing) => failedQueue = << >>

\* C5: isRefreshing, once set, becomes false again: when every request has
\* been answered the flag is false.
C5_FlagCleared ==
  Quiescent => ~isRefreshing

\* C6: every call to logout returns, with accessToken absent: a logout that
\* returned left no token, and when every request has been answered no
\* POST /v1/auth/logout is still awaited.
C6_LogoutReturns ==
  /\ \A e \in events : e.fn = "logout" => accessToken = NoToken
  /\ Quiescent => \A r \in Slots : requests[r].url # LOGOUT

\* C7: a failed refreshAccessToken is handled the same way whether the
\* server rejected the renewal or the request failed: from every state, the
\* three kinds of failure of a renewal on the network lead to the same state,
\* in which logout has been called and nothing else has changed; and whenever
\* refreshAccessToken returns false, that logout has returned in the same
\* task and accessToken is absent.
C7_FailureAlike ==
  /\ \A r \in OnNetwork : requests[r].url = REFRESH =>
       LET biz == settle(Cur, r, "biz", NoToken)
           net == responseError(Cur, r, 0)
           una == responseError(Cur, r, 401)
       IN  /\ biz = net /\ net = una
           /\ biz.accessToken = accessToken
           /\ biz.events = {}
           /\ \E l \in Slots : /\ biz.requests[l].url = LOGOUT
                                /\ biz.requests[l].st = "sent"
                                /\ biz.requests[l].who = requests[r].who
                                /\ (requests[l].st = "free" \/ l = r)
  /\ \A e \in events : (e.fn = "refreshAccessToken" /\ ~e.val) =>
       /\ accessToken = NoToken
       /\ \E l \in events : l.fn = "logout" /\ l.who = e.who
C7_Witness ==
  \E e \in events : e.fn = "refreshAccessToken" /\ ~e.val /\ e.who = "renew"

\* C8: a re-sent request on the network carries a token minted by a renewal,
\* never no token and never the token it carried when it was rejected; and
\* the flag is set in the same task as the check, so that isRefreshing is
\* true exactly while one 401 handler is in its renewal branch.
C8_ResentWithNewToken ==
  /\ \A r \in Resent :
       /\ requests[r].hdr # NoToken
       /\ requests[r].hdr # requests[r].rej
       /\ requests[r].hdr > MOCK_ACCESS_TOKEN
       /\ requests[r].hdr <= NewAccessToken(serverClock)
  /\ isRefreshing <=> Renewing # {}
  /\ Cardinality(Renewing) <= 1
C8_Witness ==
  \E r \in Resent : requests[r].hdr = accessToken /\ requests[r].rej # NoToken

\* C9: a POST /v1/auth/refresh is never queued, never starts a renewal and is
\* never re-sent; its 401 goes to refreshAccessToken, which calls logout.
C9_RefreshNeverRenews ==
  /\ \A r \in Slots : requests[r].url = REFRESH =>
       /\ requests[r].st = "sent"
       /\ ~requests[r].retry
       /\ requests[r].resends = 0
       /\ requests[r].posts = 0
  /\ \A i \in 1..Len(failedQueue) : requests[failedQueue[i]].url # REFRESH
  /\ \A e \in events : (e.fn = "refresh" /\ e.out = "401") =>
       \E l \in Slots : requests[l].url = LOGOUT /\ requests[l].who = e.who
C9_Witness ==
  \E e \in events : e.fn = "refresh" /\ e.out = "401" /\ e.who = "renew"

\* C10: a logout that returned leaves accessToken absent; the server never
\* renews without the refreshToken cookie, and a refreshAccessToken answered
\* without it returns false with accessToken absent.
C10_NoResurrection ==
  \A e \in events :
    /\ e.fn = "logout" => accessToken = NoToken
    /\ (e.fn = "refresh" /\ ~e.val) => e.out # "ok"
    /\ (e.fn = "refreshAccessToken" /\ e.out = "no cookie") =>
         ~e.val /\ accessToken = NoToken
C10_Witness ==
  /\ serverClock >= 1
  /\ ~refreshCookie
  /\ \E e \in events : e.fn = "refreshAccessToken" /\ e.who = "renew" /\ e.out = "no cookie"

\* C11: initializeAuth sends nothing when a token is held, and the start-up
\* (the call of the application entry and the call of the router guard of
\* the first navigation) puts a single POST /v1/auth/refresh on the network.
C11_OneStartupRenewal ==
  /\ accessToken # NoToken =>
       \A w \in {"init", "guard"} : initializeAuth(Cur, w).requests = requests
  /\ Cardinality({r \in Slots : /\ requests[r].url = REFRESH
                                 /\ requests[r].who \in {"init", "guard"}}) <= 1

\* C12: a login with a wrong password that was sent while no token was held
\* leaves accessToken absent for as long as the client handles its answer:
\* its request is never re-sent behind a renewal that stored a token.
C12_WrongPasswordStoresNothing ==
  \A r \in Slots :
    (/\ requests[r].url = LOGIN
     /\ ~requests[r].pw
     /\ requests[r].resends >= 1
     /\ requests[r].rej = NoToken) => accessToken = NoToken

\* ------------------------------------------------- tracker vocabulary
Idle == verificationState = createEmptyVerificationState
AwaitingCode ==
  /\ verificationState.type # "null"
  /\ verificationState.email # "null"
  /\ verificationState.verificationToken # "null"
  /\ verificationState.passwordResetToken = "null"
  /\ verificationState.timestamp # 0
Expired ==
  /\ verificationState.timestamp # 0
  /\ clock - verificationState.timestamp > VERIFICATION_TIMEOUT
Verified == verificationState.passwordResetToken # "null"

\* C13: type is null if and only if email, verificationToken,
\* passwordResetToken and timestamp are all null.
C13_TypeNullIffEmpty ==
  (verificationState.type = "null") <=>
     /\ verificationState.email = "null"
     /\ verificationState.verificationToken = "null"
     /\ verificationState.passwordResetToken = "null"
     /\ verificationState.timestamp = 0

\* C14: a passwordResetToken is held only in a flow of type forgot-password.
C14_ResetTokenOnlyForgotPassword ==
  Verified => verificationState.type = "forgot-password"

\* C15: a step that enters a state holding a passwordResetToken is a
\* verification that succeeded from an AwaitingCode state of type
\* forgot-password that had not expired.
C15_VerifiedOnlyFromAwaitingCode ==
  [][(~Verified /\ Verified') =>
       /\ AwaitingCode
       /\ verificationState.type = "forgot-password"
       /\ ~Expired
       /\ \E e \in returned' : e.fn = "verify" /\ e.val]_vars

\* C16: a flow whose timestamp is T is reported active by
\* hasActiveVerification at T + 14 min 59 s, and at T + 15 min 1 s it is
\* reported inactive and the read leaves the tracker cleared, in memory and
\* in sessionStorage.
C16_ActiveUntilTimeout ==
  /\ (verificationState.type # "null" /\ verificationState.timestamp # 0) =>
       /\ clock - verificationState.timestamp = VERIFICATION_TIMEOUT - TICK =>
            /\ hasActiveVerification(Cur2).val
            /\ hasActiveVerification(Cur2).t = Cur2
       /\ clock - verificationState.timestamp = VERIFICATION_TIMEOUT + TICK =>
            /\ ~hasActiveVerification(Cur2).val
            /\ hasActiveVerification(Cur2).t.verificationState = createEmptyVerificationState
            /\ hasActiveVerification(Cur2).t.storage = << >>
  /\ \A e \in returned : e.fn = "hasActiveVerification" =>
       /\ e.age = VERIFICATION_TIMEOUT - TICK => e.val
       /\ e.age = VERIFICATION_TIMEOUT + TICK => ~e.val /\ Idle /\ storage = << >>
C16_Witness ==
  \E e \in returned : /\ e.fn = "hasActiveVerification"
                       /\ e.age = VERIFICATION_TIMEOUT + TICK
                       /\ ~e.val

C18_RateLimitStartsCooldown ==
  \A q \in pending : q.fn = "resend" =>
    \A o \in {"429 body", "429 http"} :
      /\ resendVerificationCode_resume(Cur2, q, o).returned \subseteq
            {e \in [fn : {"resend"}, val : {FALSE},
                     info : {TooFrequent, RateLimited}, age : {-1}] : TRUE}
      /\ resendVerificationCode_resume(Cur2, q, o).resendCooldownEndTimestamp
            = clock + RESEND_COOLDOWN
      /\ resendVerificationCode_resume(Cur2, q, o).verificationState = verificationState

\* C19: resendVerificationCode sends a request only from an AwaitingCode
\* state that has not expired and is not cooling down; from any other state
\* it returns false, sends nothing and changes no field of the state.
C19_ResendOnlyFromAwaitingCode ==
  ~(AwaitingCode /\ ~isExpired(Cur2) /\ ~isResendCoolingDown(Cur2)) =>
     /\ resendVerificationCode(Cur2).pending = pending
     /\ \E e \in resendVerificationCode(Cur2).returned : e.fn = "resend" /\ ~e.val
     /\ resendVerificationCode(Cur2).verificationState = verificationState
     /\ resendVerificationCode(Cur2).storage = storage

\* C20: a forgot-password verification answered with code 200 and no
\* passwordResetToken returns null with the error set, and leaves the
\* tracker Idle with no sessionStorage entry.
C20_MissingResetTokenClears ==
  /\ \A q \in pending : (q.fn = "verify" /\ q.type = "forgot-password") =>
       unifiedVerify_resume(Cur2, q, "ok") =
         [Cur2 EXCEPT !.pending = @ \ {q},
                      !.verificationState = createEmptyVerificationState,
                      !.resendCooldownEndTimestamp = 0,
                      !.storage = << >>,
                      !.returned = {Returned("verify", FALSE, ResetTokenMissing, -1)}]
  /\ \A e \in returned : (e.fn = "verify" /\ e.info = ResetTokenMissing) =>
       /\ ~e.val
       /\ Idle
       /\ storage = << >>
C20_Witness ==
  \E e \in returned : e.fn = "verify" /\ e.info = ResetTokenMissing

\* C21: a verification that fails with a wrong code, a network error or a
\* timeout returns null and leaves the verification state, the saved
\* snapshot and the resend cooldown as they were.
C21_RecoverableKeepsState ==
  /\ \A q \in pending : q.fn = "verify" =>
       \A o \in TrackerAnswers(q) \cap {"wrong http", "wrong body", "err", "timeout"} :
         /\ VerificationForm_resume(Cur2, q, o).verificationState = verificationState
         /\ VerificationForm_resume(Cur2, q, o).storage = storage
         /\ VerificationForm_resume(Cur2, q, o).resendCooldownEndTimestamp
               = resendCooldownEndTimestamp
         /\ VerificationForm_resume(Cur2, q, o).returned # {}
         /\ \A e \in VerificationForm_resume(Cur2, q, o).returned :
              e.fn = "verify" /\ ~e.val /\ e.info # NoMessage
  /\ \A e \in returned :
       (/\ e.fn = "verify"
        /\ e.info \in {WrongCode, NetworkError, TimeoutExceeded,
                       detailedMessage("signup", TRUE, WrongCode),
                       detailedMessage("forgot-password", TRUE, WrongCode)}) => ~e.val
C21_Witness ==
  /\ \E e \in returned : e.fn = "verify" /\ ~e.val /\ e.info = WrongCode
  /\ AwaitingCode
  /\ verificationState.verificationToken = TEST_VERIFICATION_TOKEN
  /\ storage = <<JSON_stringify(verificationState)>>

\* C22: a verification that fails because the token has expired, is invalid
\* or is missing, or because the reset token is missing, leaves the tracker
\* Idle, whichever message of the mocks reports it: all fields null, no
\* sessionStorage entry, no cooldown.
C22_UnrecoverableClears ==
  \A q \in pending : q.fn = "verify" =>
    \A o \in TrackerAnswers(q) \cap {"expired http", "expired body", "no token body", "ok"} :
      (o = "ok" => q.type = "forgot-password") =>
        /\ VerificationForm_resume(Cur2, q, o).verificationState
              = createEmptyVerificationState
        /\ VerificationForm_resume(Cur2, q, o).storage = << >>
        /\ VerificationForm_resume(Cur2, q, o).resendCooldownEndTimestamp = 0

C24_CleanupResult ==
  /\ Verified =>
       cleanupAfterVerification(Cur2, TRUE).verificationState =
         [type |-> "forgot-password", email |-> verificationState.email,
          verificationToken |-> "null",
          passwordResetToken |-> verificationState.passwordResetToken,
          timestamp |-> clock]
  /\ ~Verified =>
       cleanupAfterVerification(Cur2, TRUE).verificationState
         = createEmptyVerificationState
  /\ cleanupAfterVerification(Cur2, FALSE).verificationState
       = createEmptyVerificationState
C24_Witness ==
  /\ verificationState =
       [type |-> "forgot-password", email |-> EMAIL, verificationToken |-> "null",
        passwordResetToken |-> TEST_PASSWORD_RESET_TOKEN, timestamp |-> clock]
  /\ storage = <<JSON_stringify(verificationState)>>
  /\ clock > TICK

\* C25: for every email e and token v, setVerificationState({type: signup,
\* email: e, verificationToken: v}) followed by
\* cleanupAfterVerification(false) yields the initial Idle state: type,
\* email, verificationToken, passwordResetToken and timestamp all null.
C25_StartThenCleanupIsIdle ==
  \A e \in {EMAIL, "a@b.com"}, v \in {TEST_VERIFICATION_TOKEN, NEW_MOCK_TOKEN, "tok1"} :
    cleanupAfterVerification(setVerificationState(Cur2, "signup", e, v),
                             FALSE).verificationState
      = [type |-> "null", email |-> "null", verificationToken |-> "null",
         passwordResetToken |-> "null", timestamp |-> 0]
C25_Witness ==
  /\ Idle
  /\ storage = <<JSON_stringify(createEmptyVerificationState)>>
  /\ flowCalls = 1
  /\ pending = {}

\* C26: clearVerificationState, called in any state, leaves the five fields
\* null, removes the sessionStorage entry and clears the cooldown, so that
\* isResendCoolingDown is false right after it.
C26_ClearFromAnyState ==
  /\ clearVerificationState(Cur2).verificationState = createEmptyVerificationState
  /\ clearVerificationState(Cur2).storage = << >>
  /\ clearVerificationState(Cur2).resendCooldownEndTimestamp = 0
  /\ ~isResendCoolingDown(clearVerificationState(Cur2))
  /\ clearVerificationState(Cur2).pending = pending
C26_Witness ==
  /\ Idle
  /\ storage = << >>
  /\ resendCooldownEndTimestamp = 0
  /\ returned = {}
  /\ elapsed = 0
  /\ flowCalls = 3
  /\ \E q \in pending : q.fn = "verify" /\ ~q.live

\* C27: whenever the flow in memory has not expired, the state that
\* loadVerificationState rebuilds from sessionStorage is the verification
\* state in memory, so a reload resumes the flow where it was.
C27_SnapshotMatchesMemory ==
  ~Expired => loadVerificationState(Cur2).verificationState = verificationState
C27_Witness ==
  /\ tickBase > TICK
  /\ Verified
  /\ verificationState.type = "forgot-password"
  /\ storage = <<JSON_stringify(verificationState)>>
  /\ pending = {}

\* C28: setVerificationState(type, email, token), called in any state,
\* yields exactly type, email, the token as verificationToken, no
\* passwordResetToken and the current time as timestamp, in memory and in
\* the saved snapshot: nothing of a previous flow survives.
C28_StartOverwrites ==
  \A type \in {"signup", "forgot-password"}, e \in {EMAIL, "a@b.com"},
     v \in {TEST_VERIFICATION_TOKEN, "tok1"} :
    /\ setVerificationState(Cur2, type, e, v).verificationState =
         [type |-> type, email |-> e, verificationToken |-> v,
          passwordResetToken |-> "null", timestamp |-> clock]
    /\ setVerificationState(Cur2, type, e, v).storage =
         <<JSON_stringify([type |-> type, email |-> e, verificationToken |-> v,
                           passwordResetToken |-> "null", timestamp |-> clock])>>
C28_Witness ==
  /\ verificationState =
       [type |-> "signup", email |-> EMAIL,
        verificationToken |-> TEST_VERIFICATION_TOKEN,
        passwordResetToken |-> "null", timestamp |-> clock]
  /\ clock > TICK
  /\ returned = {}
  /\ \E q \in pending : /\ q.fn = "verify" /\ q.manual /\ ~q.live
                         /\ q.type = "forgot-password"

\* C29: a resend answered with code 200 leaves the tracker in AwaitingCode
\* with the type and the email of the call, the verificationToken of the
\* answer, no passwordResetToken and the time of the answer as timestamp,
\* and starts a cooldown that ends 60 seconds after the answer.
C29_ResendSuccessState ==
  /\ \A q \in pending : q.fn = "resend" =>
       resendVerificationCode_resume(Cur2, q, "ok") =
         [Cur2 EXCEPT
            !.pending = @ \ {q},
            !.verificationState =
               [type |-> q.type, email |-> q.email,
                verificationToken |-> NEW_MOCK_TOKEN,
                passwordResetToken |-> "null", timestamp |-> clock],
            !.storage = <<JSON_stringify(
               [type |-> q.type, email |-> q.email,
                verificationToken |-> NEW_MOCK_TOKEN,
                passwordResetToken |-> "null", timestamp |-> clock])>>,
            !.resendCooldownEndTimestamp = clock + 60 * TICK,
            !.returned = {Returned("resend", TRUE, NoMessage, -1)}]
  /\ \A e \in returned : (e.fn = "resend" /\ e.val) =>
       /\ AwaitingCode
       /\ verificationState.email = EMAIL
       /\ verificationState.verificationToken = NEW_MOCK_TOKEN
       /\ verificationState.timestamp = clock
       /\ resendCooldownEndTimestamp - clock = RESEND_COOLDOWN
C29_Witness ==
  /\ \E e \in returned : e.fn = "resend" /\ e.val
  /\ verificationState.verificationToken = NEW_MOCK_TOKEN
  /\ verificationState.timestamp > TICK
  /\ resendCooldownEndTimestamp = verificationState.timestamp + RESEND_COOLDOWN

C32_LoadDiscardsExpired ==
  storage # << >> =>
    \A fresh \in {[Cur2 EXCEPT !.verificationState = createEmptyVerificationState,
                                !.resendCooldownEndTimestamp = 0, !.pending = {}]} :
      IF verificationState.timestamp # 0
           /\ clock - verificationState.timestamp > VERIFICATION_TIMEOUT
        THEN /\ loadVerificationState(fresh).verificationState = createEmptyVerificationState
             /\ loadVerificationState(fresh).storage = << >>
        ELSE /\ loadVerificationState(fresh).verificationState = verificationState
             /\ loadVerificationState(fresh).storage = storage

\* a flow has just been restored by a reload 899 s after it was started
C32_Witness ==
  /\ tickBase = clock
  /\ verificationState.type # "null"
  /\ clock - verificationState.timestamp = 899000
  /\ storage = <<JSON_stringify(verificationState)>>

\* C34: whenever isRefreshing is false, failedQueue is empty: a renewal cycle
\* that has ended, in success or in failure, has left no waiter behind.
C34_IdleQueueEmpty ==
  ~isRefreshing => failedQueue = << >>

\* C35: while no access token is held (a logout has completed and neither a
\* login nor a renewal has succeeded since, or nobody has logged in yet), a
\* request dispatched through the api client carries no Authorization
\* header, neither from the request interceptor nor from the default header
\* of the client.
C35_NoBearerAfterLogout ==
  (accessToken = NoToken /\ HasSlot(Cur)) =>
    \A url \in {LOGIN, RESET, REFRESH, LOGOUT} :
      apiPost(Cur, url, "app", 0, FALSE, FALSE).requests[NewSlot(Cur)].hdr = NoToken

\* C36: a login performed while a logout awaits the server's answer is not
\* undone by that logout.  A POST /v1/auth/logout that was dispatched without
\* Authorization header left when no token was held, so a token held while it
\* is on the network comes from a login made since: when the answer arrives
\* and the logout finishes, that token is still held.
C36_LoginSurvivesLogout ==
  \A r \in Slots :
    (/\ requests[r].st = "sent" /\ requests[r].url = LOGOUT
     /\ requests[r].hdr = NoToken /\ accessToken # NoToken) =>
       \A o \in {"ok", "err"} :
         settle(Cur, r, o, NoToken).accessToken = accessToken

\* C37: once clearVerificationState has left the tracker Idle with no
\* cooldown, the answer to a resend or verify request that was sent before
\* leaves it so.  (A resend is only sent from a flow, and a verify request
\* whose form is gone was sent before the form was left: when the tracker is
\* Idle, such a request was sent before the state was cleared.)
C37_IdleAfterCancel ==
  (verificationState = createEmptyVerificationState /\ resendCooldownEndTimestamp = 0) =>
    \A q \in pending :
      /\ q.fn = "resend" =>
           \A o \in TrackerAnswers(q) :
             /\ resendVerificationCode_resume(Cur2, q, o).verificationState
                  = createEmptyVerificationState
             /\ resendVerificationCode_resume(Cur2, q, o).resendCooldownEndTimestamp = 0
      /\ (q.fn = "verify" /\ ~q.live) =>
           \A o \in TrackerAnswers(q) :
             /\ VerificationForm_resume(Cur2, q, o).verificationState
                  = createEmptyVerificationState
             /\ VerificationForm_resume(Cur2, q, o).resendCooldownEndTimestamp = 0

\* C38: while the answer to a resend is awaited, a second
\* resendVerificationCode returns false without sending: of two calls of
\* which the second starts before the first is answered, at most one POST
\* /v1/auth/resend-verification-code goes out.
C38_OneResendInFlight ==
  \A q \in pending :
    q.fn = "resend" =>
      /\ \E e \in resendVerificationCode(Cur2).returned : e.fn = "resend" /\ ~e.val
      /\ \A q2 \in resendVerificationCode(Cur2).pending \ pending : q2.fn # "resend"

\* C39: unifiedVerify never advances a flow older than 15 minutes: when the
\* answer to a verification arrives and the age of the stored flow exceeds
\* the timeout (as it does whenever it exceeded it at the call), no
\* passwordResetToken is stored and the tracker ends Idle.
C39_VerifyNeverAdvancesExpired ==
  (/\ verificationState.timestamp # 0
   /\ clock - verificationState.timestamp > VERIFICATION_TIMEOUT) =>
     \A q \in pending :
       q.fn = "verify" =>
         \A o \in TrackerAnswers(q) :
           VerificationForm_resume(Cur2, q, o).verificationState
             = createEmptyVerificationState

\* C33: the guard confirms a navigation to a route with requiresAuth only if
\* isAuthenticated is true when the guard decides, which on the first
\* navigation is after initializeAuth has finished; otherwise it redirects to
\* /login with the target path in the redirect query; a navigation to login
\* while authenticated is redirected to the workspace.  The first conjunct is
\* the decision of the first navigation as the events record it, the second
\* the decision a later navigation would receive in the present state.
C33_GuardDecision ==
  /\ \A e \in events : e.fn = "beforeEach" =>
        /\ isAuthInitialized
        /\ \A q \in Slots : requests[q].who # "guard"
        /\ e.val = (accessToken # NoToken)
  /\ \A d \in {[name |-> e.who, isAuthenticated |-> e.val, out |-> e.out] :
                  e \in {x \in events : x.fn = "beforeEach"}}
             \cup {[name |-> n, isAuthenticated |-> accessToken # NoToken,
                     out |-> beforeEach(n, accessToken # NoToken)] :
                      n \in IF isAuthInitialized THEN Routes ELSE {}} :
        /\ (requiresAuth(d.name) /\ d.isAuthenticated) => d.out = "next"
        /\ (requiresAuth(d.name) /\ ~d.isAuthenticated) =>
              d.out = LoginLocation(fullPath(d.name))
        /\ (d.name = "login" /\ d.isAuthenticated) => d.out = "/workspace"
        /\ (requiresAuth(d.name) /\ d.out = "next") => d.isAuthenticated
C33_Witness ==
  \E e \in events : e.fn = "beforeEach" /\ e.who = "workspace" /\ ~e.val
                     /\ e.out = "/login?redirect=/workspace"

\* C31: a logout(true) that finishes has removed the cached global and auth
\* configuration, so that the next fetchGlobalConfig or fetchAuthConfig goes
\* to the network; a logout(false) leaves every configuration cache entry as
\* it is, in its own finally block and in whatever runs on its behalf while
\* it awaits; in both cases accessToken is cleared when the logout finishes.
C31_LogoutConfigCache ==
  /\ \A e \in events : e.fn = "logout" =>
        /\ accessToken = NoToken
        /\ e.out # "" =>
              /\ \A k \in ConfigKeys \ {AUTH_CONFIG_OLD_DURATION_KEY} :
                    getItem(Cur, k) = << >>
              /\ CopiesIn(CONFIG, fetchGlobalConfig(Cur, FALSE).fetches)
                    = CopiesIn(CONFIG, fetches) + 1
              /\ CopiesIn(AUTH_CONFIG, fetchAuthConfig(Cur, FALSE).fetches)
                    = CopiesIn(AUTH_CONFIG, fetches) + 1
        /\ e.out # "clearAllConfigCache during logout(false)"
  /\ \A r \in Slots :
        (requests[r].st = "sent" /\ requests[r].url = LOGOUT
         /\ requests[r].who = "user" /\ ~requests[r].clear) =>
           \A o \in {"ok", "err"} :
             /\ settle(Cur, r, o, NoToken).localStorage = localStorage
             /\ settle(Cur, r, o, NoToken).accessToken = NoToken

====
